---- MODULE Spec2Model ----
(***************************************************************************)
(* BreakDancer streaming breakpoint engine: the sweep driver (run,         *)
(* push_read, process_breakpoint, process_final_region), the connection   *)
(* builder (build_connection) and the evidence step (process_sv), over an  *)
(* id-keyed region store.                                                  *)
(***************************************************************************)
EXTENDS Integers, Sequences, FiniteSets, TLC

VARIABLES
    opts,                 \* Options const& _opts
    lib_config,           \* LibraryConfig of the (single) library
    bd,                   \* the BreakDancer object's sweep fields
    rdata,                \* ReadRegionData _rdata (region store)
    stream,               \* position of the merged reader in the sorted input
    pc,                   \* position of run()
    ret,                  \* caller build_connection returns to
    aln,                  \* the read whose push_read called process_breakpoint last
    graph,                \* build_connection: local Graph snapshot
    ii_graph,             \* build_connection: outer iterator (a key, or GraphEnd)
    tails,                \* build_connection: vector<int> tails
    newtails,             \* build_connection: vector<int> newtails
    it_tails,             \* build_connection: index of it_tails in tails
    need_iter_increment,  \* build_connection: bool need_iter_increment
    free_nodes,           \* build_connection: set<int> free_nodes
    hist,                 \* observation record (calls made, records written)
    twin                  \* a second BreakDancer object fed the reordered stream

vars == <<opts, lib_config, bd, rdata, stream, pc, ret, aln, graph, ii_graph,
          tails, newtails, it_tails, need_iter_increment, free_nodes, hist, twin>>

bcvars == <<graph, ii_graph, tails, newtails, it_tails, need_iter_increment, free_nodes>>

----------------------------------------------------------------------------
(* Bounds of the model *)

MaxReads == 4       \* records the merged reader delivers in one run
MaxPos == 2         \* largest 0-based alignment start
MaxNode == 3        \* regions registered before a build_connection call taken on its own
MaxName == 3        \* query names (read pairs) of a run
MaxCut == 3         \* largest insert-size cutoff of the classifier runs

Tids == {0, 1}
Names == 1..MaxName
QueryLengths == {4}
\* PhredQ_tmp in tenths: 10.0, 10.5 and 120.0
PhredQ_tmpChoices == {100, 105, 1200}

----------------------------------------------------------------------------
(* breakdancer::pair_orientation_flag *)

NA == "NA"
NORMAL_FR == "NORMAL_FR"
NORMAL_RF == "NORMAL_RF"
ARP_FR_big_insert == "ARP_FR_big_insert"
ARP_FR_small_insert == "ARP_FR_small_insert"
ARP_RF == "ARP_RF"
ARP_FF == "ARP_FF"
ARP_RR == "ARP_RR"
ARP_CTX == "ARP_CTX"
MATE_UNMAPPED == "MATE_UNMAPPED"
UNMAPPED == "UNMAPPED"

AllFlags == {NA, NORMAL_FR, NORMAL_RF, ARP_FR_big_insert, ARP_FR_small_insert,
             ARP_RF, ARP_FF, ARP_RR, ARP_CTX, MATE_UNMAPPED, UNMAPPED}

Abs(x) == IF x < 0 THEN -x ELSE x
Max2(a, b) == IF a > b THEN a ELSE b
Min2(a, b) == IF a < b THEN a ELSE b

----------------------------------------------------------------------------
(* push_read: insert-size reclassification *)

\* the three long-insert rules with the small-insert rule tried first
LongInsertRulesReordered(flag, abs_isize, lowercutoff, uppercutoff) ==
    LET f1 == IF abs_isize < lowercutoff /\ flag = NORMAL_RF
              THEN ARP_FR_small_insert ELSE flag
        f2 == IF abs_isize > uppercutoff /\ f1 = NORMAL_RF THEN ARP_RF ELSE f1
        f3 == IF abs_isize < uppercutoff /\ f2 = ARP_RF THEN NORMAL_RF ELSE f2
    IN  f3

LongInsertRules(flag, abs_isize, lowercutoff, uppercutoff) ==
    LET f1 == IF abs_isize > uppercutoff /\ flag = NORMAL_RF THEN ARP_RF ELSE flag
        f2 == IF abs_isize < uppercutoff /\ f1 = ARP_RF THEN NORMAL_RF ELSE f1
        f3 == IF abs_isize < lowercutoff /\ f2 = NORMAL_RF
              THEN ARP_FR_small_insert ELSE f2
    IN  f3

ShortInsertRules(flag, abs_isize, lowercutoff, uppercutoff) ==
    LET f1 == IF abs_isize > uppercutoff /\ flag = NORMAL_FR
              THEN ARP_FR_big_insert ELSE flag
        f2 == IF abs_isize < uppercutoff /\ f1 = ARP_FR_big_insert
              THEN NORMAL_FR ELSE f1
        f3 == IF abs_isize < lowercutoff /\ f2 = NORMAL_FR
              THEN ARP_FR_small_insert ELSE f2
        f4 == IF f3 = NORMAL_RF THEN ARP_RF ELSE f3
    IN  f4

FoldRR(flag) == IF flag = ARP_RR THEN ARP_FF ELSE flag

Reclassify(flag, abs_isize, long_insert, lowercutoff, uppercutoff) ==
    FoldRR(IF long_insert
           THEN LongInsertRules(flag, abs_isize, lowercutoff, uppercutoff)
           ELSE ShortInsertRules(flag, abs_isize, lowercutoff, uppercutoff))

IsNormal(flag) == flag = NORMAL_FR \/ flag = NORMAL_RF

----------------------------------------------------------------------------
(* push_read: the gates in front of the classifier *)

\* a library threshold of 0 taken for a missing one
EffectiveMinMapqZeroMissing ==
    IF lib_config.min_mapping_quality <= 0
    THEN opts.min_map_qual ELSE lib_config.min_mapping_quality

\* int min_mapq = lib_config.min_mapping_quality < 0 ? _opts.min_map_qual : ...
EffectiveMinMapq ==
    IF lib_config.min_mapping_quality < 0
    THEN opts.min_map_qual ELSE lib_config.min_mapping_quality

\* drops before any counter is touched
DroppedEarly(a) == a.bdflag = NA \/ a.bdqual <= EffectiveMinMapq

\* the counter fed whatever the mapq of the read
CountsAsNormalAnyMapq(a) == IsNormal(a.bdflag)

\* the counter fed by NORMAL_FR reads only
CountsAsNormalFROnly(a) == a.bdqual > opts.min_map_qual /\ a.bdflag = NORMAL_FR

CountsAsNormal(a) == a.bdqual > opts.min_map_qual /\ IsNormal(a.bdflag)

NormalReadKey == IF opts.CN_lib = 1 THEN "name" ELSE "bam_file"

\* drops after the normal-read counter
DroppedLate(a) ==
    \/ (opts.transchr_rearrange /\ a.bdflag # ARP_CTX)
    \/ a.bdflag = MATE_UNMAPPED
    \/ a.bdflag = UNMAPPED
    \/ (a.bdflag # ARP_CTX /\ Abs(a.isize) > opts.max_sd)

Classified(a) ==
    [a EXCEPT !.bdflag = Reclassify(a.bdflag, Abs(a.isize), opts.Illumina_long_insert,
                                    lib_config.lowercutoff, lib_config.uppercutoff)]


----------------------------------------------------------------------------
(* The BreakDancer object *)

Construct(max_read_window_size) ==
    [ max_read_window_size |-> max_read_window_size,
      collecting_normal_reads |-> FALSE,
      nnormal_reads |-> 0,
      ntotal_nucleotides |-> 0,
      max_readlen |-> 0,
      buffer_size |-> 0,
      region_start_tid |-> -1,
      region_start_pos |-> -1,
      region_end_tid |-> -1,
      region_end_pos |-> -1,
      reads_in_current_region |-> <<>> ]

NoRead == [name |-> 0, tid |-> -1, pos |-> -1, bdflag |-> NA, isize |-> 0,
           bdqual |-> 0, query_length |-> 0]

\* concordant reads counted whatever the sign of isize
CountNormalAnyIsize(b, a) ==
    IF b.collecting_normal_reads
    THEN [b EXCEPT !.nnormal_reads = @ + 1] ELSE b

\* push_read, a read still concordant after reclassification
CountNormal(b, a) ==
    IF b.collecting_normal_reads /\ a.isize > 0
    THEN [b EXCEPT !.nnormal_reads = @ + 1] ELSE b

\* push_read, coverage bookkeeping of a discordant read
Accumulate(b, a) ==
    IF b.collecting_normal_reads
    THEN [b EXCEPT !.ntotal_nucleotides = @ + a.query_length,
                   !.max_readlen = Max2(@, a.query_length)]
    ELSE b

\* the window test taken at the end of the read instead of its start
DoBreakAtReadEnd(b, a) ==
    \/ a.tid # b.region_end_tid
    \/ a.pos + a.query_length - b.region_end_pos > b.max_read_window_size

\* the window test with >= in place of >
DoBreakInclusive(b, a) ==
    a.tid # b.region_end_tid \/ a.pos - b.region_end_pos >= b.max_read_window_size

\* the window test left out: only a change of tid breaks
DoBreakTidOnly(b, a) == a.tid # b.region_end_tid

DoBreak(b, a) ==
    a.tid # b.region_end_tid \/ a.pos - b.region_end_pos > b.max_read_window_size

\* push_read after process_breakpoint returned: clear out this node
StartNewRegion(b, a) ==
    [b EXCEPT !.region_start_tid = a.tid,
              !.region_start_pos = a.pos,
              !.reads_in_current_region = <<>>,
              !.collecting_normal_reads = FALSE,
              !.nnormal_reads = 0,
              !.max_readlen = 0,
              !.ntotal_nucleotides = 0]

\* what the model keeps of a buffered read: its query name, its flag and its length
StoredRead(a) == [name |-> a.name, bdflag |-> a.bdflag, query_length |-> a.query_length]

\* the read stored without the flag that lets the sweep collect being flipped
AppendReadFlagKept(b, a) ==
    [b EXCEPT !.reads_in_current_region = Append(@, StoredRead(a)),
              !.region_end_tid = a.tid,
              !.region_end_pos = a.pos]

\* push_read: store the read in the region buffer
AppendRead(b, a) ==
    LET reads == Append(b.reads_in_current_region, StoredRead(a))
    IN  [b EXCEPT !.reads_in_current_region = reads,
                  !.collecting_normal_reads = IF Len(reads) = 1 THEN TRUE ELSE @,
                  !.region_end_tid = a.tid,
                  !.region_end_pos = a.pos]

\* process_breakpoint: seq_coverage < seq_coverage_lim, the quotient compared exactly
CoverageBelowLimit(b) ==
    LET den == b.region_end_pos - b.region_start_pos + 1 + b.max_readlen
    IN  IF den > 0 THEN b.ntotal_nucleotides < opts.seq_coverage_lim * den
        ELSE IF den = 0 THEN FALSE
        ELSE b.ntotal_nucleotides > opts.seq_coverage_lim * den

\* the length test with >= in place of >
RegionIsReliableInclusive(b) ==
    /\ b.region_end_pos - b.region_start_pos >= opts.min_len
    /\ CoverageBelowLimit(b)

\* process_breakpoint: the region is registered
RegionIsReliable(b) ==
    /\ b.region_end_pos - b.region_start_pos > opts.min_len
    /\ CoverageBelowLimit(b)

\* the flush test with >= in place of >
FlushTriggeredAtLimit(count) == count >= opts.buffer_size

\* the flush test one region late
FlushTriggeredLate(count) == count > opts.buffer_size + 1

\* process_breakpoint: the incremented counter triggers build_connection
FlushTriggered(count) == count > opts.buffer_size

----------------------------------------------------------------------------
(* ReadRegionData: regions by id, reads by query name *)

EmptyStore ==
    [ regions |-> <<>>,
      read_regions |-> [n \in Names |-> <<>>],
      normal_read_count |-> [k \in {"name", "bam_file"} |-> 0] ]

RegionIds(rd) == 1..Len(rd.regions)

region_exists(rd, id) == id \in RegionIds(rd) /\ rd.regions[id].exists

num_reads_in_region(rd, id) == Len(rd.regions[id].reads)

incr_normal_read_count(rd, key) ==
    [rd EXCEPT !.normal_read_count[key] = @ + 1]

ReadsNamed(reads, n) ==
    LET Named(r) == r.name = n IN SelectSeq(reads, Named)

add_region(rd, tid, begin, last, nnormal, reads) ==
    LET id == Len(rd.regions) + 1
        region == [exists |-> TRUE, tid |-> tid, begin |-> begin, last |-> last,
                   normal_read_count |-> nnormal, reads |-> reads]
    IN  [rd EXCEPT !.regions = Append(@, region),
                   !.read_regions = [n \in Names |->
                        @[n] \o [i \in 1..Len(ReadsNamed(reads, n)) |-> id]]]

erase_read(rd, names) ==
    [rd EXCEPT !.read_regions = [n \in Names |-> IF n \in names THEN <<>> ELSE @[n]]]

NamesOf(reads) == {reads[i].name : i \in 1..Len(reads)}

collapse_accumulated_data_into_last_region(rd, reads) ==
    erase_read(rd, NamesOf(reads))

remove_reads_in_region_if(rd, id, names) ==
    LET Kept(r) == r.name \notin names
    IN  [rd EXCEPT !.regions[id].reads = SelectSeq(@, Kept)]

clear_region(rd, id) ==
    LET gone == erase_read(rd, NamesOf(rd.regions[id].reads))
    IN  [gone EXCEPT !.regions[id] = [exists |-> FALSE, tid |-> -1, begin |-> -1,
                                      last |-> -1, normal_read_count |-> 0,
                                      reads |-> <<>>]]

\* number of query names registered once in u and once in v
LinksBetween(rd, u, v) ==
    Cardinality({n \in Names :
        LET p == rd.read_regions[n]
        IN  Len(p) = 2 /\ ((p[1] = u /\ p[2] = v) \/ (p[1] = v /\ p[2] = u))})

EmptyGraph == [keys |-> {}, edges |-> {}]

\* the Graph handed to build_connection: keys u, and edges <<u, v, weight>>
region_graph(rd) ==
    LET linked == {n \in Names : Len(rd.read_regions[n]) = 2}
        keys == UNION {{rd.read_regions[n][1], rd.read_regions[n][2]} : n \in linked}
    IN  [keys |-> keys,
         edges |-> {e \in {<<u, v, LinksBetween(rd, u, v)>> : u \in keys, v \in keys} :
                      e[3] > 0}]


----------------------------------------------------------------------------
(* The local Graph of build_connection: std::map<int, std::map<int, int>> *)

GraphEnd == 0

SetMin(S) == CHOOSE x \in S : \A y \in S : x <= y

\* the iteration started at the last key of the map
GraphBeginAtLast(g) ==
    IF g.keys = {} THEN GraphEnd ELSE CHOOSE x \in g.keys : \A y \in g.keys : y <= x

GraphBegin(g) == IF g.keys = {} THEN GraphEnd ELSE SetMin(g.keys)

\* the iterator left where it was
GraphNextStays(g, k) == k

\* ++ii on the ordered map
GraphNext(g, k) ==
    LET later == {x \in g.keys : x > k}
    IN  IF later = {} THEN GraphEnd ELSE SetMin(later)

Adjacency(g, t) == {e \in g.edges : e[1] = t}

\* graph_tail.begin(): the entry with the smallest neighbour id
FirstEdge(g, t) ==
    CHOOSE e \in Adjacency(g, t) : \A f \in Adjacency(g, t) : e[2] <= f[2]

\* graph_tail.erase(ii_graph_tail++)
EraseEdge(g, u, v) ==
    [g EXCEPT !.edges = {e \in @ : ~(e[1] = u /\ e[2] = v)}]

\* a traversal that leaves the reverse direction in place
EraseReverseSkipped(g, s1, tail) == g

\* graph[s1].erase(tail): operator[] creates the entry s1 when it is absent
EraseReverse(g, s1, tail) ==
    [keys |-> g.keys \cup {s1},
     edges |-> {e \in g.edges : ~(e[1] = s1 /\ e[2] = tail)}]

\* graph.erase(key)
EraseKey(g, k) ==
    [keys |-> g.keys \ {k}, edges |-> {e \in g.edges : e[1] # k}]

\* the edge test with > in place of >=
SufficientLinksStrict(nlinks) == nlinks > opts.min_read_pair

\* the edge test off by one
SufficientLinksOffByOne(nlinks) == nlinks >= opts.min_read_pair - 1

\* require sufficient number of pairs
SufficientLinks(nlinks) == nlinks >= opts.min_read_pair

Snodes(tail, s1) ==
    IF tail # s1 THEN <<Min2(s1, tail), Max2(s1, tail)>> ELSE <<s1>>

----------------------------------------------------------------------------
(* SvBuilder: the evidence of a node-set *)

RECURSIVE CandidateReads(_, _)
CandidateReads(rd, snodes) ==
    IF snodes = <<>> THEN <<>>
    ELSE rd.regions[Head(snodes)].reads \o CandidateReads(rd, Tail(snodes))

\* query names met twice among the candidate reads
ObservedReads(cands) == {n \in Names : Len(ReadsNamed(cands, n)) >= 2}

NumPairs(cands) == Cardinality(ObservedReads(cands))

SvFlagOrder == <<ARP_FR_big_insert, ARP_FR_small_insert, ARP_RF, ARP_FF, ARP_CTX>>

FlagCounts(cands, f) ==
    Cardinality({n \in ObservedReads(cands) : ReadsNamed(cands, n)[1].bdflag = f})

\* the flag with the highest count, ties broken by the enumeration order
DominantFlag(cands) ==
    LET best == CHOOSE i \in 1..Len(SvFlagOrder) :
                    /\ \A j \in 1..Len(SvFlagOrder) :
                          FlagCounts(cands, SvFlagOrder[j]) <= FlagCounts(cands, SvFlagOrder[i])
                    /\ \A j \in 1..(i - 1) :
                          FlagCounts(cands, SvFlagOrder[j]) < FlagCounts(cands, SvFlagOrder[i])
    IN  SvFlagOrder[best]

----------------------------------------------------------------------------
(* process_sv *)

RECURSIVE RemoveObserved(_, _, _)
RemoveObserved(rd, snodes, names) ==
    IF snodes = <<>> THEN rd
    ELSE RemoveObserved(remove_reads_in_region_if(rd, Head(snodes), names),
                        Tail(snodes), names)

SeqRange(q) == {q[i] : i \in 1..Len(q)}

\* the spent reads stay in the name index
FreeReadsSkipped(rd, names) == rd

\* for_each(svb.reads_to_free, erase_read)
FreeReads(rd, names) == erase_read(rd, names)

\* int PhredQ = PhredQ_tmp > 99 ? 99 : int(PhredQ_tmp + 0.5), PhredQ_tmp in tenths
PhredQOf(PhredQ_tmp) ==
    IF PhredQ_tmp > 990 THEN 99 ELSE (PhredQ_tmp + 5) \div 10

\* the evidence test passed: PhredQ is computed
Scored(cands) == FlagCounts(cands, DominantFlag(cands)) >= opts.min_read_pair

\* the score test with >= in place of >
AboveThresholdInclusive(PhredQ) == PhredQ >= opts.score_threshold

\* if (PhredQ > _opts.score_threshold)
AboveThreshold(PhredQ) == PhredQ > opts.score_threshold

\* a record is written
WritesRecord(cands, PhredQ) ==
    /\ Scored(cands)
    /\ AboveThreshold(PhredQ)

\* only the first id of the node-set is entered
InsertFreeNodesFirstOnly(fnodes, snodes) == fnodes \cup {Head(snodes)}

\* free_nodes.insert(snodes.begin(), snodes.end())
InsertFreeNodes(fnodes, snodes) == fnodes \cup SeqRange(snodes)

\* svb.pos: a single region gives its begin and its last, two regions give the last
\* of the earlier one and the begin of the later one
SvPos(rd, snodes) ==
    IF Len(snodes) = 1
    THEN <<rd.regions[snodes[1]].begin, rd.regions[snodes[1]].last>>
    ELSE <<rd.regions[snodes[1]].last, rd.regions[snodes[2]].begin>>

\* svb.flag != ARP_RF && svb.flag != ARP_RR && svb.pos[0] + _max_readlen - 5 < svb.pos[1]
PaddingApplies(flag, pos, max_readlen) ==
    /\ flag # ARP_RF /\ flag # ARP_RR
    /\ pos[1] + max_readlen - 5 < pos[2]

\* svb.pos[0] += _max_readlen - 5: the coordinates before and after the statement
StartPadding(flag, pos, max_readlen) ==
    [ applied |-> PaddingApplies(flag, pos, max_readlen),
      max_readlen |-> max_readlen,
      before |-> pos,
      after |-> IF PaddingApplies(flag, pos, max_readlen)
                THEN <<pos[1] + max_readlen - 5, pos[2]>> ELSE pos ]

NoPadding == [applied |-> FALSE, max_readlen |-> 0, before |-> <<0, 0>>, after |-> <<0, 0>>]

\* [rdata, free_nodes, stopped, scored, padding, PhredQ, wrote] after
\* process_sv(snodes, free_nodes), with _max_readlen as the sweep left it
process_sv(rd, fnodes, snodes, PhredQ_tmp, max_readlen) ==
    LET cands == CandidateReads(rd, snodes)
        observed == ObservedReads(cands)
        rd1 == RemoveObserved(rd, snodes, observed)
    IN  IF NumPairs(cands) < opts.min_read_pair
        THEN [rdata |-> rd1, free_nodes |-> fnodes, stopped |-> TRUE,
              scored |-> FALSE, padding |-> NoPadding, PhredQ |-> 0, wrote |-> FALSE]
        ELSE [rdata |-> FreeReads(rd1, observed),
              free_nodes |-> InsertFreeNodes(fnodes, snodes),
              stopped |-> FALSE,
              scored |-> Scored(cands),
              padding |-> IF Scored(cands)
                          THEN StartPadding(DominantFlag(cands), SvPos(rd, snodes),
                                            max_readlen)
                          ELSE NoPadding,
              PhredQ |-> PhredQOf(PhredQ_tmp),
              wrote |-> WritesRecord(cands, PhredQOf(PhredQ_tmp))]

----------------------------------------------------------------------------
(* build_connection: free regions *)

\* n < unsigned(min_read_pair): a negative option converts to a value above any count
BelowUnsigned(n, x) == IF x < 0 THEN TRUE ELSE n < x

RECURSIVE FreeRegions(_, _)
FreeRegions(rd, ids) ==
    IF ids = {} THEN rd
    ELSE LET i == SetMin(ids)
             rd1 == IF BelowUnsigned(num_reads_in_region(rd, i), opts.min_read_pair)
                    THEN clear_region(rd, i) ELSE rd
         IN  FreeRegions(rd1, ids \ {i})


----------------------------------------------------------------------------
(* The input stream and the configuration of a run *)

\* buffer_size and min_read_pair of a run: flush on every region with single-pair
\* evidence, or hold one region back and ask for three pairs
Profiles == {<<0, 1>>, <<1, 3>>}

OptionChoices ==
    { [ min_map_qual |-> 0,
        max_sd |-> 4,
        min_len |-> 0,
        seq_coverage_lim |-> 2,
        buffer_size |-> p[1],
        min_read_pair |-> p[2],
        transchr_rearrange |-> FALSE,
        Illumina_long_insert |-> long,
        CN_lib |-> 1,
        score_threshold |-> 10 ] : p \in Profiles, long \in BOOLEAN }

LibraryChoices ==
    [ min_mapping_quality : {-1}, lowercutoff : {2}, uppercutoff : {3} ]

WindowChoices == {1}

\* aligner flag, insert size and mapping quality of the records of a run
ReadKinds ==
    { [bdflag |-> NORMAL_FR, isize |-> 2, bdqual |-> 1],
      [bdflag |-> NORMAL_FR, isize |-> -2, bdqual |-> 1],
      [bdflag |-> NORMAL_RF, isize |-> 2, bdqual |-> 1],
      [bdflag |-> NORMAL_RF, isize |-> 4, bdqual |-> 1],
      [bdflag |-> ARP_FF, isize |-> 2, bdqual |-> 1],
      [bdflag |-> ARP_FF, isize |-> 5, bdqual |-> 1],
      [bdflag |-> ARP_FF, isize |-> 2, bdqual |-> 0],
      [bdflag |-> NA, isize |-> 0, bdqual |-> 1] }

\* the query name of a record whose mate never reaches a region
Unpaired == 0

StreamInit == [n |-> 0, tid |-> 0, pos |-> 0, seen |-> [x \in Names |-> 0]]

\* the reader delivers records in non-decreasing (tid, pos)
NextPositions ==
    {tp \in Tids \X (0..MaxPos) :
        tp[1] > stream.tid \/ (tp[1] = stream.tid /\ tp[2] >= stream.pos)}

\* a query name occurs at most twice; names are taken in order
UsableNames ==
    {x \in Names : stream.seen[x] < 2 /\ \A y \in Names : y < x => stream.seen[y] > 0}

SortedReads ==
    {[name |-> x, tid |-> tp[1], pos |-> tp[2], bdflag |-> k.bdflag, isize |-> k.isize,
      bdqual |-> k.bdqual, query_length |-> q] :
        x \in UsableNames \cup {Unpaired}, tp \in NextPositions, k \in ReadKinds,
        q \in QueryLengths}

\* a read reaches the region accumulator as a discordant read
EntersBuffer(a) ==
    ~DroppedEarly(a) /\ ~DroppedLate(a) /\ ~IsNormal(Classified(a).bdflag)

\* push_read reads the position and the name of a discordant read only: the other
\* records are taken unpaired, at the position of the record before them
NextReads ==
    {a \in SortedReads :
        \/ EntersBuffer(a)
        \/ (a.tid = stream.tid /\ a.pos = stream.pos /\ a.name = Unpaired)}

Advance(a) ==
    [n |-> stream.n + 1, tid |-> a.tid, pos |-> a.pos,
     seen |-> IF a.name \in Names THEN [stream.seen EXCEPT ![a.name] = @ + 1]
              ELSE stream.seen]

HistInit ==
    [ sv_calls |-> <<>>,          \* node-sets handed to process_sv by the running build_connection
      snapshot |-> EmptyGraph,    \* the Graph the running build_connection started from
      assert_failed |-> FALSE,    \* an assert(region_exists(..)) of build_connection failed
      bad_deref |-> FALSE,        \* ii_graph->first evaluated with ii_graph == graph.end()
      nrecords |-> 0,             \* records written to cout
      PhredQ |-> 0,               \* the last PhredQ of the running build_connection
      padding |-> NoPadding,      \* the last start-coordinate padding of that call
      stopped |-> {},             \* node-sets whose process_sv stopped at num_pairs
      built_at |-> 0,             \* regions registered when build_connection last started
      steps |-> 0,                \* statements the running build_connection executed
      pushed |-> NoRead,          \* the record push_read was called with last (gate runs)
      n_open |-> 0,               \* concordant reads with isize > 0 since the region opened
      final_calls |-> <<>>,       \* calls made by process_final_region
      final_buffer |-> "open",    \* the buffer as process_final_region found it
      only_normal |-> TRUE,       \* every pushed read came flagged NORMAL_FR or NORMAL_RF
      all_concordant |-> TRUE,    \* every pushed read was concordant after reclassification
      n_counted |-> 0,            \* pushed NORMAL_* reads with mapq above both thresholds
      input_flag |-> NA,          \* the aligner's flag of the read under reclassification
      flushes |-> <<>>,           \* buffers process_breakpoint was handed, first object
      twin_flushes |-> <<>>,      \* buffers process_breakpoint was handed, second object
      coverage_inputs |-> <<>>,   \* what seq_coverage was computed from, first object
      entered |-> FALSE ]         \* some pushed read passed the gates and stayed discordant

IdleLocals ==
    /\ graph = EmptyGraph /\ ii_graph = GraphEnd /\ tails = <<>> /\ newtails = <<>>
    /\ it_tails = 1 /\ need_iter_increment = TRUE /\ free_nodes = {}

Init ==
    /\ opts \in OptionChoices
    /\ lib_config \in LibraryChoices
    /\ bd \in {Construct(w) : w \in WindowChoices}
    /\ rdata = EmptyStore
    /\ stream = StreamInit
    /\ pc = "run"
    /\ ret = "none"
    /\ aln = NoRead
    /\ IdleLocals
    /\ hist = HistInit
    /\ twin = bd

----------------------------------------------------------------------------
(* run: one record of the stream *)

Observe(a) ==
    [hist EXCEPT
        !.only_normal = @ /\ IsNormal(a.bdflag),
        !.all_concordant = @ /\ IsNormal(Classified(a).bdflag),
        !.entered = @ \/ EntersBuffer(a),
        !.n_counted = IF IsNormal(a.bdflag) /\ a.bdqual > EffectiveMinMapq
                          /\ a.bdqual > opts.min_map_qual
                       THEN @ + 1 ELSE @,
        !.n_open = IF DroppedEarly(a) \/ DroppedLate(a) THEN @
                   ELSE IF IsNormal(Classified(a).bdflag)
                   THEN IF a.isize > 0 /\ bd.reads_in_current_region # <<>>
                        THEN @ + 1 ELSE @
                   ELSE IF \/ a.tid # bd.region_end_tid
                           \/ a.pos - bd.region_end_pos > bd.max_read_window_size
                   THEN 0 ELSE @]

\* the store after the normal-read counter of push_read
Counted(rd, a) ==
    IF CountsAsNormal(a) THEN incr_normal_read_count(rd, NormalReadKey) ELSE rd

\* build_connection is entered: snapshot taken, iterator at begin()
StartBuild(rd, caller) ==
    /\ graph' = region_graph(rd)
    /\ ii_graph' = GraphBegin(region_graph(rd))
    /\ free_nodes' = {}
    /\ tails' = <<>>
    /\ newtails' = <<>>
    /\ it_tails' = 1
    /\ need_iter_increment' = TRUE
    /\ pc' = "bc_outer"
    /\ ret' = caller

\* run: the read group has no library, the record is skipped
SkipRead ==
    /\ pc = "run" /\ stream.n < MaxReads
    /\ stream' = [stream EXCEPT !.n = @ + 1]
    /\ UNCHANGED <<opts, lib_config, bd, rdata, pc, ret, aln, bcvars, hist, twin>>

\* push_read returns at one of the gates
PushReadDropped ==
    /\ pc = "run" /\ stream.n < MaxReads
    /\ \E a \in NextReads :
        /\ DroppedEarly(a) \/ DroppedLate(a)
        /\ stream' = Advance(a)
        /\ rdata' = IF DroppedEarly(a) THEN rdata ELSE Counted(rdata, a)
        /\ hist' = Observe(a)
    /\ UNCHANGED <<opts, lib_config, bd, pc, ret, aln, bcvars, twin>>

\* push_read of a read that is concordant after reclassification
PushReadConcordant ==
    /\ pc = "run" /\ stream.n < MaxReads
    /\ \E a \in NextReads :
        /\ ~DroppedEarly(a) /\ ~DroppedLate(a)
        /\ IsNormal(Classified(a).bdflag)
        /\ stream' = Advance(a)
        /\ rdata' = Counted(rdata, a)
        /\ bd' = CountNormal(bd, Classified(a))
        /\ hist' = Observe(a)
    /\ UNCHANGED <<opts, lib_config, pc, ret, aln, bcvars, twin>>

\* push_read of a discordant read inside the window
PushReadAppend ==
    /\ pc = "run" /\ stream.n < MaxReads
    /\ \E a \in NextReads :
        /\ ~DroppedEarly(a) /\ ~DroppedLate(a)
        /\ ~IsNormal(Classified(a).bdflag)
        /\ ~DoBreak(Accumulate(bd, Classified(a)), Classified(a))
        /\ stream' = Advance(a)
        /\ rdata' = Counted(rdata, a)
        /\ bd' = AppendRead(Accumulate(bd, Classified(a)), Classified(a))
        /\ hist' = Observe(a)
    /\ UNCHANGED <<opts, lib_config, pc, ret, aln, bcvars, twin>>

\* push_read breaks, process_breakpoint discards the region
PushReadBreakDiscard ==
    /\ pc = "run" /\ stream.n < MaxReads
    /\ \E a \in NextReads :
        LET c == Classified(a)
            b1 == Accumulate(bd, c)
        IN  /\ ~DroppedEarly(a) /\ ~DroppedLate(a)
            /\ ~IsNormal(c.bdflag)
            /\ DoBreak(b1, c)
            /\ ~RegionIsReliable(b1)
            /\ stream' = Advance(a)
            /\ rdata' = collapse_accumulated_data_into_last_region(
                            Counted(rdata, a), b1.reads_in_current_region)
            /\ bd' = AppendRead(StartNewRegion(b1, c), c)
            /\ aln' = c
            /\ hist' = Observe(a)
    /\ UNCHANGED <<opts, lib_config, pc, ret, bcvars, twin>>

\* push_read breaks, process_breakpoint registers the region without a flush
PushReadBreakRegister ==
    /\ pc = "run" /\ stream.n < MaxReads
    /\ \E a \in NextReads :
        LET c == Classified(a)
            b1 == Accumulate(bd, c)
        IN  /\ ~DroppedEarly(a) /\ ~DroppedLate(a)
            /\ ~IsNormal(c.bdflag)
            /\ DoBreak(b1, c)
            /\ RegionIsReliable(b1)
            /\ ~FlushTriggered(b1.buffer_size + 1)
            /\ stream' = Advance(a)
            /\ rdata' = add_region(Counted(rdata, a), b1.region_start_tid,
                                   b1.region_start_pos, b1.region_end_pos,
                                   b1.nnormal_reads, b1.reads_in_current_region)
            /\ bd' = AppendRead(StartNewRegion(
                        [b1 EXCEPT !.buffer_size = @ + 1], c), c)
            /\ aln' = c
            /\ hist' = Observe(a)
    /\ UNCHANGED <<opts, lib_config, pc, ret, bcvars, twin>>

\* push_read breaks, process_breakpoint registers the region and calls build_connection
PushReadBreakFlush ==
    /\ pc = "run" /\ stream.n < MaxReads
    /\ \E a \in NextReads :
        LET c == Classified(a)
            b1 == Accumulate(bd, c)
            rd1 == add_region(Counted(rdata, a), b1.region_start_tid,
                              b1.region_start_pos, b1.region_end_pos,
                              b1.nnormal_reads, b1.reads_in_current_region)
        IN  /\ ~DroppedEarly(a) /\ ~DroppedLate(a)
            /\ ~IsNormal(c.bdflag)
            /\ DoBreak(b1, c)
            /\ RegionIsReliable(b1)
            /\ FlushTriggered(b1.buffer_size + 1)
            /\ stream' = Advance(a)
            /\ rdata' = rd1
            /\ bd' = [b1 EXCEPT !.buffer_size = @ + 1]
            /\ aln' = c
            /\ hist' = [Observe(a) EXCEPT !.snapshot = region_graph(rd1),
                                          !.built_at = Len(rd1.regions),
                                          !.sv_calls = <<>>, !.PhredQ = 0,
                                          !.stopped = {}, !.steps = 0,
                                          !.padding = NoPadding]
            /\ StartBuild(rd1, "push_read")
    /\ UNCHANGED <<opts, lib_config, twin>>


----------------------------------------------------------------------------
(* process_final_region *)

\* the unconditional call skipped when nothing was buffered
FinalBuildIfBuffered(b) == b.reads_in_current_region # <<>>

\* process_final_region calls build_connection whatever the buffer held
FinalBuildAlways(b) == TRUE

\* end of stream with an empty buffer: build_connection only
FinalEmpty ==
    /\ pc = "run"
    /\ bd.reads_in_current_region = <<>>
    /\ IF FinalBuildAlways(bd)
       THEN /\ hist' = [hist EXCEPT !.final_buffer = "empty",
                                    !.final_calls = <<"build_connection">>,
                                    !.snapshot = region_graph(rdata),
                                    !.built_at = Len(rdata.regions),
                                    !.sv_calls = <<>>, !.PhredQ = 0,
                                    !.stopped = {}, !.steps = 0,
                                    !.padding = NoPadding]
            /\ StartBuild(rdata, "final")
       ELSE /\ hist' = [hist EXCEPT !.final_buffer = "empty"]
            /\ pc' = "done"
            /\ UNCHANGED <<ret, bcvars>>
    /\ UNCHANGED <<opts, lib_config, bd, rdata, stream, aln, twin>>

\* end of stream, the buffered region is discarded by process_breakpoint
FinalDiscard ==
    /\ pc = "run"
    /\ bd.reads_in_current_region # <<>>
    /\ ~RegionIsReliable(bd)
    /\ LET rd1 == collapse_accumulated_data_into_last_region(
                      rdata, bd.reads_in_current_region)
       IN  /\ rdata' = rd1
           /\ hist' = [hist EXCEPT !.final_buffer = "nonempty",
                                   !.final_calls = <<"process_breakpoint", "build_connection">>,
                                   !.snapshot = region_graph(rd1),
                                   !.built_at = Len(rd1.regions),
                                   !.sv_calls = <<>>, !.PhredQ = 0,
                                   !.stopped = {}, !.steps = 0,
                                   !.padding = NoPadding]
           /\ StartBuild(rd1, "final")
    /\ UNCHANGED <<opts, lib_config, bd, stream, aln, twin>>

\* end of stream, the buffered region is registered without a flush
FinalRegister ==
    /\ pc = "run"
    /\ bd.reads_in_current_region # <<>>
    /\ RegionIsReliable(bd)
    /\ ~FlushTriggered(bd.buffer_size + 1)
    /\ LET rd1 == add_region(rdata, bd.region_start_tid, bd.region_start_pos,
                             bd.region_end_pos, bd.nnormal_reads,
                             bd.reads_in_current_region)
       IN  /\ rdata' = rd1
           /\ bd' = [bd EXCEPT !.buffer_size = @ + 1]
           /\ hist' = [hist EXCEPT !.final_buffer = "nonempty",
                                   !.final_calls = <<"process_breakpoint", "build_connection">>,
                                   !.snapshot = region_graph(rd1),
                                   !.built_at = Len(rd1.regions),
                                   !.sv_calls = <<>>, !.PhredQ = 0,
                                   !.stopped = {}, !.steps = 0,
                                   !.padding = NoPadding]
           /\ StartBuild(rd1, "final")
    /\ UNCHANGED <<opts, lib_config, stream, aln, twin>>

\* end of stream, the buffered region is registered and process_breakpoint flushes
FinalFlush ==
    /\ pc = "run"
    /\ bd.reads_in_current_region # <<>>
    /\ RegionIsReliable(bd)
    /\ FlushTriggered(bd.buffer_size + 1)
    /\ LET rd1 == add_region(rdata, bd.region_start_tid, bd.region_start_pos,
                             bd.region_end_pos, bd.nnormal_reads,
                             bd.reads_in_current_region)
       IN  /\ rdata' = rd1
           /\ bd' = [bd EXCEPT !.buffer_size = @ + 1]
           /\ hist' = [hist EXCEPT !.final_buffer = "nonempty",
                                   !.final_calls = <<"process_breakpoint", "flush_build">>,
                                   !.snapshot = region_graph(rd1),
                                   !.built_at = Len(rd1.regions),
                                   !.sv_calls = <<>>, !.PhredQ = 0,
                                   !.stopped = {}, !.steps = 0,
                                   !.padding = NoPadding]
           /\ StartBuild(rd1, "final_flush")
    /\ UNCHANGED <<opts, lib_config, stream, aln, twin>>

----------------------------------------------------------------------------
(* build_connection, statement by statement *)

\* one more statement of the running build_connection was executed
Stepped(h) == [h EXCEPT !.steps = @ + 1]

\* while (ii_graph != graph.end()): seed tails with ii_graph->first
BC_Outer ==
    /\ pc = "bc_outer"
    /\ IF ii_graph # GraphEnd
       THEN /\ tails' = <<ii_graph>>
            /\ need_iter_increment' = TRUE
            /\ pc' = "bc_while"
       ELSE /\ pc' = "bc_cleanup"
            /\ UNCHANGED <<tails, need_iter_increment>>
    /\ hist' = Stepped(hist)
    /\ UNCHANGED <<opts, lib_config, bd, rdata, stream, ret, aln, graph, ii_graph,
                   newtails, it_tails, free_nodes, twin>>

\* while (tails.size() > 0) ... if (need_iter_increment) ++ii_graph
BC_While ==
    /\ pc = "bc_while"
    /\ IF Len(tails) > 0
       THEN /\ newtails' = <<>>
            /\ it_tails' = 1
            /\ pc' = "bc_for"
            /\ UNCHANGED ii_graph
       ELSE /\ ii_graph' = IF need_iter_increment THEN GraphNext(graph, ii_graph)
                           ELSE ii_graph
            /\ pc' = "bc_outer"
            /\ UNCHANGED <<newtails, it_tails>>
    /\ hist' = Stepped(hist)
    /\ UNCHANGED <<opts, lib_config, bd, rdata, stream, ret, aln, graph, tails,
                   need_iter_increment, free_nodes, twin>>

\* for (it_tails ...): the tail is looked up, or the round ends with tails.swap(newtails)
BC_For ==
    /\ pc = "bc_for"
    /\ IF it_tails > Len(tails)
       THEN /\ tails' = newtails
            /\ newtails' = <<>>
            /\ pc' = "bc_while"
            /\ hist' = Stepped(hist)
            /\ UNCHANGED it_tails
       ELSE LET tail == tails[it_tails]
            IN  /\ hist' = [Stepped(hist) EXCEPT
                              !.assert_failed = @ \/ ~region_exists(rdata, tail)]
                /\ IF ~region_exists(rdata, tail) \/ tail \notin graph.keys
                   THEN it_tails' = it_tails + 1 /\ pc' = "bc_for"
                   ELSE it_tails' = it_tails /\ pc' = "bc_edges"
                /\ UNCHANGED <<tails, newtails>>
    /\ UNCHANGED <<opts, lib_config, bd, rdata, stream, ret, aln, graph, ii_graph,
                   need_iter_increment, free_nodes, twin>>

\* while (ii_graph_tail != graph_tail.end()): one edge of the tail is consumed
BC_Edge ==
    /\ pc = "bc_edges"
    /\ Adjacency(graph, tails[it_tails]) # {}
    /\ LET tail == tails[it_tails]
           e == FirstEdge(graph, tail)
           s1 == e[2]
           nlinks == e[3]
           g1 == EraseEdge(graph, tail, s1)
           failed == hist.assert_failed \/ ~region_exists(rdata, s1)
       IN  IF ~SufficientLinks(nlinks) \/ ~region_exists(rdata, s1)
           THEN /\ graph' = g1
                /\ hist' = [Stepped(hist) EXCEPT !.assert_failed = failed]
                /\ UNCHANGED <<rdata, newtails, free_nodes>>
           ELSE \E PhredQ_tmp \in PhredQ_tmpChoices :
                  LET sv == process_sv(rdata, free_nodes, Snodes(tail, s1), PhredQ_tmp,
                                       bd.max_readlen)
                  IN  /\ graph' = IF tail # s1 THEN EraseReverse(g1, s1, tail) ELSE g1
                      /\ newtails' = Append(newtails, s1)
                      /\ rdata' = sv.rdata
                      /\ free_nodes' = sv.free_nodes
                      /\ hist' = [Stepped(hist) EXCEPT
                                    !.assert_failed = failed,
                                    !.sv_calls = Append(@, Snodes(tail, s1)),
                                    !.stopped = IF sv.stopped
                                                THEN @ \cup {Snodes(tail, s1)} ELSE @,
                                    !.PhredQ = IF sv.scored THEN sv.PhredQ ELSE @,
                                    !.padding = IF sv.scored THEN sv.padding ELSE @,
                                    !.nrecords = IF sv.wrote THEN @ + 1 ELSE @]
    /\ UNCHANGED <<opts, lib_config, bd, stream, pc, ret, aln, ii_graph, tails,
                   it_tails, need_iter_increment, twin>>

\* the adjacency is exhausted: if (tail == ii_graph->first) graph.erase(ii_graph++)
BC_TailDone ==
    /\ pc = "bc_edges"
    /\ Adjacency(graph, tails[it_tails]) = {}
    /\ LET tail == tails[it_tails]
       IN  IF ii_graph = GraphEnd
           THEN \* dereferencing end() is undefined: either branch may be taken
                /\ hist' = [Stepped(hist) EXCEPT !.bad_deref = TRUE]
                /\ \E same \in BOOLEAN :
                      IF same
                      THEN need_iter_increment' = FALSE /\ UNCHANGED graph
                      ELSE graph' = EraseKey(graph, tail) /\ UNCHANGED need_iter_increment
                /\ UNCHANGED ii_graph
           ELSE IF tail = ii_graph
           THEN /\ graph' = EraseKey(graph, ii_graph)
                /\ ii_graph' = GraphNext(graph, ii_graph)
                /\ need_iter_increment' = FALSE
                /\ hist' = Stepped(hist)
           ELSE /\ graph' = EraseKey(graph, tail)
                /\ hist' = Stepped(hist)
                /\ UNCHANGED <<ii_graph, need_iter_increment>>
    /\ it_tails' = it_tails + 1
    /\ pc' = "bc_for"
    /\ UNCHANGED <<opts, lib_config, bd, rdata, stream, ret, aln, tails, newtails,
                   free_nodes, twin>>

\* free regions
BC_Cleanup ==
    /\ pc = "bc_cleanup"
    /\ rdata' = FreeRegions(rdata, free_nodes)
    /\ pc' = "bc_return"
    /\ hist' = Stepped(hist)
    /\ UNCHANGED <<opts, lib_config, bd, stream, ret, aln, bcvars, twin>>

LocalsDie ==
    /\ graph' = EmptyGraph /\ ii_graph' = GraphEnd /\ tails' = <<>> /\ newtails' = <<>>
    /\ it_tails' = 1 /\ need_iter_increment' = TRUE /\ free_nodes' = {}

\* build_connection returns into process_breakpoint called by push_read
BC_ReturnToPushRead ==
    /\ pc = "bc_return" /\ ret = "push_read"
    /\ bd' = AppendRead(StartNewRegion([bd EXCEPT !.buffer_size = 0], aln), aln)
    /\ pc' = "run"
    /\ ret' = "none"
    /\ hist' = [hist EXCEPT !.snapshot = EmptyGraph, !.sv_calls = <<>>, !.PhredQ = 0,
                            !.stopped = {}, !.steps = 0,
                            !.padding = NoPadding]
    /\ LocalsDie
    /\ UNCHANGED <<opts, lib_config, rdata, stream, aln, twin>>

\* build_connection returns into process_breakpoint called by process_final_region
BC_ReturnToFinalFlush ==
    /\ pc = "bc_return" /\ ret = "final_flush"
    /\ bd' = [bd EXCEPT !.buffer_size = 0]
    /\ IF FinalBuildAlways(bd)
       THEN /\ hist' = [hist EXCEPT !.final_calls = Append(@, "build_connection"),
                                    !.snapshot = region_graph(rdata),
                                    !.built_at = Len(rdata.regions),
                                    !.sv_calls = <<>>, !.PhredQ = 0,
                                    !.stopped = {}, !.steps = 0,
                                    !.padding = NoPadding]
            /\ StartBuild(rdata, "final")
       ELSE /\ hist' = [hist EXCEPT !.snapshot = EmptyGraph, !.sv_calls = <<>>, !.PhredQ = 0,
                                    !.stopped = {}, !.steps = 0,
                                    !.padding = NoPadding]
            /\ pc' = "done" /\ ret' = "none"
            /\ LocalsDie
    /\ UNCHANGED <<opts, lib_config, rdata, stream, aln, twin>>

\* the last build_connection returns: run() is over
BC_ReturnToFinal ==
    /\ pc = "bc_return" /\ ret = "final"
    /\ pc' = "done"
    /\ ret' = "none"
    /\ hist' = [hist EXCEPT !.snapshot = EmptyGraph, !.sv_calls = <<>>, !.PhredQ = 0,
                            !.stopped = {}, !.steps = 0,
                            !.padding = NoPadding]
    /\ LocalsDie
    /\ UNCHANGED <<opts, lib_config, bd, rdata, stream, aln, twin>>

BuildConnection ==
    \/ BC_Outer \/ BC_While \/ BC_For \/ BC_Edge \/ BC_TailDone \/ BC_Cleanup

PushRead ==
    \/ PushReadDropped \/ PushReadConcordant \/ PushReadAppend
    \/ PushReadBreakDiscard \/ PushReadBreakRegister \/ PushReadBreakFlush

ProcessFinalRegion ==
    \/ FinalEmpty \/ FinalDiscard \/ FinalRegister \/ FinalFlush

Next ==
    \/ SkipRead
    \/ PushRead
    \/ ProcessFinalRegion
    \/ BuildConnection
    \/ BC_ReturnToPushRead
    \/ BC_ReturnToFinalFlush
    \/ BC_ReturnToFinal

Spec == Init /\ [][Next]_vars

----------------------------------------------------------------------------
(* Properties of the sweep *)

Erased(rd) == {id \in RegionIds(rd) : ~rd.regions[id].exists}

BreakpointReturned == pc \in {"run", "done"} \/ ret = "final"

\* C3: with opts.buffer_size >= 0, whenever process_breakpoint has returned the counter
\* satisfies 0 <= _buffer_size <= opts.buffer_size.
C3_BufferSizeBounded ==
    (opts.buffer_size >= 0 /\ BreakpointReturned)
        => (0 <= bd.buffer_size /\ bd.buffer_size <= opts.buffer_size)

\* a region was registered without a flush and the counter sits at its limit
C3_Witness ==
    /\ pc = "run"
    /\ opts.buffer_size = 1
    /\ bd.buffer_size = opts.buffer_size
    /\ Len(rdata.regions) = 1

CallCount(calls, c) == Cardinality({i \in 1..Len(calls) : calls[i] = c})

\* C9: at end of stream process_breakpoint is called iff the buffer is non-empty, and
\* after it build_connection is called exactly once, unconditionally, as the last call
\* of the run (the flush inside process_breakpoint not counted).
C9_FinalRegionCalls ==
    pc = "done" =>
        /\ CallCount(hist.final_calls, "process_breakpoint")
              = (IF bd.reads_in_current_region # <<>> THEN 1 ELSE 0)
        /\ CallCount(hist.final_calls, "build_connection") = 1
        /\ hist.final_calls # <<>>
        /\ hist.final_calls[Len(hist.final_calls)] = "build_connection"
        /\ (bd.reads_in_current_region # <<>> => hist.final_calls[1] = "process_breakpoint")

\* a run whose final flush already built the connections, and that built them again
C9_Witness ==
    /\ pc = "done"
    /\ hist.final_calls = <<"process_breakpoint", "flush_build", "build_connection">>

\* the read just stored joined a buffer that already held a read
ReadJoinedRegion ==
    /\ Len(bd.reads_in_current_region) >= 1
    /\ Len(bd'.reads_in_current_region) = Len(bd.reads_in_current_region) + 1

\* C2 as stated: after every push_read the open region has its start and end on one tid
\* and region_end_pos - region_start_pos <= max_read_window_size.
C2_SpanWithinWindow ==
    (pc = "run" /\ bd.reads_in_current_region # <<>>) =>
        /\ bd.region_start_tid = bd.region_end_tid
        /\ bd.region_end_pos - bd.region_start_pos <= bd.max_read_window_size

\* C2 amended: the open region has its start and end on one tid with start <= end, and
\* a read joins it only when it lies on that tid at most max_read_window_size past the
\* read stored before it; the span from region_start_pos is not bounded by the window.
C2_GapWithinWindow ==
    /\ []((pc = "run" /\ bd.reads_in_current_region # <<>>) =>
            /\ bd.region_start_tid = bd.region_end_tid
            /\ bd.region_start_pos <= bd.region_end_pos)
    /\ [][ReadJoinedRegion =>
            /\ bd'.region_end_tid = bd.region_end_tid
            /\ bd'.region_start_pos = bd.region_start_pos
            /\ bd'.region_end_pos >= bd.region_end_pos
            /\ bd'.region_end_pos - bd.region_end_pos <= bd.max_read_window_size]_vars

\* an open region chained past the window, one read after the other
C2_Witness ==
    /\ pc = "run"
    /\ Len(bd.reads_in_current_region) >= 3
    /\ bd.region_end_pos - bd.region_start_pos > bd.max_read_window_size

NothingBuffered ==
    /\ bd.reads_in_current_region = <<>>
    /\ rdata.regions = <<>>
    /\ hist.nrecords = 0
    /\ rdata.normal_read_count[NormalReadKey] = hist.n_counted

LinkedOnlyBelow(u, v) ==
    /\ u # v
    /\ \E w \in 1..(opts.min_read_pair - 1) :
          /\ Adjacency(hist.snapshot, u) = {<<u, v, w>>}
          /\ Adjacency(hist.snapshot, v) = {<<v, u, w>>}
    /\ num_reads_in_region(rdata, u) < opts.min_read_pair
    /\ num_reads_in_region(rdata, v) < opts.min_read_pair

\* C8 as stated: the build_connection call that drains an edge of weight below
\* min_read_pair, the only link of two regions, hands it to no process_sv and its
\* cleanup erases both regions.
C8_LightEdgeRegionsErased ==
    pc = "bc_return" =>
        \A u, v \in hist.snapshot.keys :
            LinkedOnlyBelow(u, v) =>
                /\ Snodes(u, v) \notin SeqRange(hist.sv_calls)
                /\ ~region_exists(rdata, u) /\ ~region_exists(rdata, v)

\* C8 amended: that call hands the pair to no process_sv, writes no record for it, and
\* its cleanup leaves both regions registered with their reads and their link.
C8_LightEdgeRegionsKept ==
    pc = "bc_return" =>
        \A u, v \in hist.snapshot.keys :
            LinkedOnlyBelow(u, v) =>
                /\ Snodes(u, v) \notin SeqRange(hist.sv_calls)
                /\ region_exists(rdata, u) /\ region_exists(rdata, v)
                /\ num_reads_in_region(rdata, u) > 0
                /\ num_reads_in_region(rdata, v) > 0
                /\ Adjacency(region_graph(rdata), u) = Adjacency(hist.snapshot, u)

\* a call returns after draining such an edge
C8_Witness ==
    /\ pc = "bc_return"
    /\ \E u, v \in hist.snapshot.keys : LinkedOnlyBelow(u, v)

----------------------------------------------------------------------------
(* The reclassification block of push_read on its own: one read of any flag and
   insert size, any pair of cutoffs, both modes *)

InitClassify ==
    /\ opts \in OptionChoices
    /\ lib_config \in [ min_mapping_quality : {-1}, lowercutoff : 0..MaxCut,
                        uppercutoff : 0..MaxCut ]
    /\ aln \in {[NoRead EXCEPT !.bdflag = f, !.isize = i, !.bdqual = 1] :
                    f \in AllFlags, i \in (0 - MaxCut - 1)..(MaxCut + 1)}
    /\ bd \in {Construct(w) : w \in WindowChoices}
    /\ rdata = EmptyStore
    /\ stream = StreamInit
    /\ pc = "classify"
    /\ ret = "none"
    /\ IdleLocals
    /\ hist = HistInit
    /\ twin = bd

\* lines 180-208 run on the read
ClassifyRead ==
    /\ pc = "classify"
    /\ aln' = Classified(aln)
    /\ hist' = [hist EXCEPT !.input_flag = aln.bdflag]
    /\ pc' = "classified"
    /\ UNCHANGED <<opts, lib_config, bd, rdata, stream, ret, bcvars, twin>>

\* the same lines run on their own output
ClassifyAgain ==
    /\ pc = "classified"
    /\ aln' = Classified(aln)
    /\ pc' = "reclassified"
    /\ UNCHANGED <<opts, lib_config, bd, rdata, stream, ret, bcvars, hist, twin>>

NextClassify == ClassifyRead \/ ClassifyAgain

SpecClassify == InitClassify /\ [][NextClassify]_vars

\* C5: reclassification is idempotent: for every flag, |isize|, pair of cutoffs and both
\* values of long_insert, the flag left by a second pass over the output of the first
\* is the flag the first pass left.
C5_ReclassifyIdempotent ==
    [][pc = "classified" => aln'.bdflag = aln.bdflag]_vars

\* a read whose flag the first pass changed went through the second pass
C5_Witness ==
    /\ pc = "reclassified"
    /\ hist.input_flag = ARP_RF
    /\ aln.bdflag = ARP_FR_small_insert

----------------------------------------------------------------------------
(* One build_connection call on its own: MaxNode regions were registered without a
   flush, each read pair lying in one region or across two, and process_final_region
   makes its unconditional call *)

\* query length of the reads of the swept regions
SweptLength == 6

\* where the two reads of a query name lie: <<u, v>> with u <= v, or <<>> when the
\* name does not occur
Placements ==
    [Names -> {<<>>} \cup {<<u, v>> : u \in 1..MaxNode, v \in 1..MaxNode}]

Ordered(place) == \A n \in Names : place[n] # <<>> => place[n][1] <= place[n][2]

\* the reads of query name n that lie in region r
RECURSIVE PlacedReads(_, _, _)
PlacedReads(place, r, n) ==
    IF n > MaxName THEN <<>>
    ELSE LET here == IF place[n] = <<>> THEN <<>>
                     ELSE SelectSeq(place[n], LAMBDA x : x = r)
             reads == [i \in 1..Len(here) |->
                          StoredRead([name |-> n, bdflag |-> ARP_FF,
                                      query_length |-> SweptLength])]
         IN  reads \o PlacedReads(place, r, n + 1)

\* with lone, every region also holds one read whose mate was dropped
RegionReads(place, lone, r) ==
    (IF lone
     THEN <<StoredRead([name |-> Unpaired, bdflag |-> ARP_FF,
                        query_length |-> SweptLength])>>
     ELSE <<>>)
        \o PlacedReads(place, r, 1)

\* regions lie 4 * MaxName apart and chain over all but the last two positions
RegionBegin(r) == (r - 1) * 4 * MaxName

RegionLast(r) == RegionBegin(r) + 4 * MaxName - 2

RECURSIVE RegisteredStore(_, _, _)
RegisteredStore(place, lone, k) ==
    IF k = 0 THEN EmptyStore
    ELSE add_region(RegisteredStore(place, lone, k - 1), 0, RegionBegin(k), RegionLast(k),
                    0, RegionReads(place, lone, k))

\* the sweep fields when the last region has been registered by process_final_region
SweptObject(place, lone, w) ==
    LET reads == RegionReads(place, lone, MaxNode)
    IN  [Construct(w) EXCEPT
            !.collecting_normal_reads = TRUE,
            !.ntotal_nucleotides = SweptLength * (Len(reads) - 1),
            !.max_readlen = IF Len(reads) > 1 THEN SweptLength ELSE 0,
            !.buffer_size = MaxNode,
            !.region_start_tid = 0,
            !.region_start_pos = RegionBegin(MaxNode),
            !.region_end_tid = 0,
            !.region_end_pos = RegionLast(MaxNode),
            !.reads_in_current_region = reads]

\* the sweep fields when the last record opened a region of its own past the last
\* registered one and process_final_region had process_breakpoint discard it
LoneObject(w) ==
    [Construct(w) EXCEPT
        !.collecting_normal_reads = TRUE,
        !.buffer_size = MaxNode,
        !.region_start_tid = 0,
        !.region_start_pos = RegionLast(MaxNode) + w + 1,
        !.region_end_tid = 0,
        !.region_end_pos = RegionLast(MaxNode) + w + 1,
        !.reads_in_current_region =
            <<StoredRead([name |-> Unpaired, bdflag |-> ARP_FF,
                          query_length |-> SweptLength])>>]

InitGraph ==
    \E place \in Placements, lone \in BOOLEAN :
        /\ Ordered(place)
        /\ \A r \in 1..MaxNode : RegionReads(place, lone, r) # <<>>
        /\ opts \in {[o EXCEPT !.buffer_size = MaxNode, !.min_read_pair = m] :
                        o \in OptionChoices, m \in {1, 2}}
        /\ lib_config \in LibraryChoices
        /\ bd \in {SweptObject(place, lone, w) : w \in WindowChoices}
                    \cup {LoneObject(w) : w \in WindowChoices}
        /\ rdata = RegisteredStore(place, lone, MaxNode)
        /\ stream = [StreamInit EXCEPT !.tid = 0, !.pos = bd.region_end_pos]
        /\ pc = "bc_outer"
        /\ ret = "final"
        /\ aln = NoRead
        /\ graph = region_graph(rdata)
        /\ ii_graph = GraphBegin(region_graph(rdata))
        /\ tails = <<>> /\ newtails = <<>> /\ it_tails = 1
        /\ need_iter_increment = TRUE /\ free_nodes = {}
        /\ hist = [HistInit EXCEPT
                      !.snapshot = region_graph(rdata),
                      !.final_buffer = "nonempty",
                      !.final_calls = <<"process_breakpoint", "build_connection">>,
                      !.only_normal = FALSE,
                      !.all_concordant = FALSE]
        /\ twin = bd

NextGraph == BuildConnection \/ BC_ReturnToFinal

SpecGraph == InitGraph /\ [][NextGraph]_vars

Symmetric(g) == \A e \in g.edges : <<e[2], e[1], e[3]>> \in g.edges

AllExist(g) ==
    /\ \A k \in g.keys : region_exists(rdata, k)
    /\ \A e \in g.edges : region_exists(rdata, e[2])

SnapshotWeight(t, s) ==
    IF \E e \in hist.snapshot.edges : e[1] = t /\ e[2] = s
    THEN (CHOOSE e \in hist.snapshot.edges : e[1] = t /\ e[2] = s)[3]
    ELSE 0

\* C10: when the traversal of a symmetric snapshot whose regions all exist has ended,
\* process_sv was called exactly once for every unordered pair {t, s}, self-loops
\* included, of weight >= min_read_pair, with node-set <<min, max>> (or <<s>>), and was
\* called for nothing else: not for a lighter pair and not twice for any pair.
C10_OneCallPerHeavyPair ==
    (pc = "bc_cleanup" /\ Symmetric(hist.snapshot) /\ AllExist(hist.snapshot)) =>
        /\ \A t, s \in hist.snapshot.keys :
              t <= s => CallCount(hist.sv_calls, Snodes(t, s))
                            = (IF SnapshotWeight(t, s) >= opts.min_read_pair THEN 1 ELSE 0)
        /\ \A i \in 1..Len(hist.sv_calls) :
              \E t, s \in hist.snapshot.keys : hist.sv_calls[i] = Snodes(t, s)

\* a traversal of three regions ended: it called process_sv for one pair and passed
\* over a lighter pair
C10_Witness ==
    /\ pc = "bc_cleanup"
    /\ Cardinality(hist.snapshot.keys) = MaxNode
    /\ \E t, s \in hist.snapshot.keys :
          /\ t < s
          /\ SnapshotWeight(t, s) > 0
          /\ SnapshotWeight(t, s) < opts.min_read_pair
    /\ \E t, s \in hist.snapshot.keys : t < s /\ CallCount(hist.sv_calls, <<t, s>>) = 1

----------------------------------------------------------------------------
(* Two BreakDancer objects swept over two streams that differ in the order of the
   records sharing one (tid, pos) *)

BagOf(reads) ==
    [x \in SeqRange(reads) |-> Cardinality({i \in 1..Len(reads) : reads[i] = x})]

\* what process_breakpoint sees of the buffer and what it decides
Flushed(b) ==
    [ registered |-> RegionIsReliable(b),
      start_tid |-> b.region_start_tid,
      start_pos |-> b.region_start_pos,
      end_pos |-> b.region_end_pos,
      nnormal_reads |-> b.nnormal_reads,
      reads |-> BagOf(b.reads_in_current_region) ]

\* process_breakpoint: the two sweep values seq_coverage is computed from, next to the
\* query lengths of the reads the buffer holds at that moment
CoverageInputs(b) ==
    [ ntotal_nucleotides |-> b.ntotal_nucleotides,
      max_readlen |-> b.max_readlen,
      query_lengths |-> [i \in 1..Len(b.reads_in_current_region) |->
                            b.reads_in_current_region[i].query_length] ]

\* _buffer_size after process_breakpoint
BufferSizeAfter(b) ==
    IF ~RegionIsReliable(b) THEN b.buffer_size
    ELSE IF FlushTriggered(b.buffer_size + 1) THEN 0 ELSE b.buffer_size + 1

\* push_read on one object: the object after the call and the buffers it flushed
PushReadObject(b, a) ==
    IF DroppedEarly(a) \/ DroppedLate(a)
    THEN [bd |-> b, flushed |-> <<>>, inputs |-> <<>>]
    ELSE LET c == Classified(a)
             b1 == Accumulate(b, c)
         IN  IF IsNormal(c.bdflag)
             THEN [bd |-> CountNormal(b, c), flushed |-> <<>>, inputs |-> <<>>]
             ELSE IF ~DoBreak(b1, c)
             THEN [bd |-> AppendRead(b1, c), flushed |-> <<>>, inputs |-> <<>>]
             ELSE [bd |-> AppendRead(StartNewRegion(
                              [b1 EXCEPT !.buffer_size = BufferSizeAfter(b1)], c), c),
                   flushed |-> <<Flushed(b1)>>,
                   inputs |-> <<CoverageInputs(b1)>>]

RECURSIVE PushAll(_, _)
PushAll(b, reads) ==
    IF reads = <<>> THEN [bd |-> b, flushed |-> <<>>, inputs |-> <<>>]
    ELSE LET first == PushReadObject(b, Head(reads))
             rest == PushAll(first.bd, Tail(reads))
         IN  [bd |-> rest.bd, flushed |-> first.flushed \o rest.flushed,
              inputs |-> first.inputs \o rest.inputs]

PermWindows == {1, 5}
PermLengths == {4, 8}
PermNames == {1}

PermKinds ==
    { [bdflag |-> NORMAL_FR, isize |-> 2, bdqual |-> 1],
      [bdflag |-> NORMAL_RF, isize |-> 2, bdqual |-> 1],
      [bdflag |-> ARP_FF, isize |-> 2, bdqual |-> 1] }

\* the records the reader may deliver next at one (tid, pos)
PermReads(tp) ==
    {[name |-> x, tid |-> tp[1], pos |-> tp[2], bdflag |-> k.bdflag, isize |-> k.isize,
      bdqual |-> k.bdqual, query_length |-> q] :
        x \in PermNames, k \in PermKinds, q \in PermLengths}

InitPerm ==
    /\ opts \in OptionChoices
    /\ lib_config \in LibraryChoices
    /\ bd \in {Construct(w) : w \in PermWindows}
    /\ twin = bd
    /\ rdata = EmptyStore
    /\ stream = StreamInit
    /\ pc = "run"
    /\ ret = "none"
    /\ aln = NoRead
    /\ IdleLocals
    /\ hist = HistInit

Feed(first, second, n) ==
    LET one == PushAll(bd, first)
        two == PushAll(twin, second)
    IN  /\ bd' = one.bd
        /\ twin' = two.bd
        /\ hist' = [hist EXCEPT !.flushes = @ \o one.flushed,
                                !.twin_flushes = @ \o two.flushed,
                                !.coverage_inputs = @ \o one.inputs]
        /\ stream' = [stream EXCEPT !.n = @ + n, !.tid = first[1].tid,
                                    !.pos = first[1].pos]

\* one record, the same in both streams
PermSingle ==
    /\ pc = "run" /\ stream.n < MaxReads
    /\ \E tp \in NextPositions : \E a \in PermReads(tp) : Feed(<<a>>, <<a>>, 1)
    /\ UNCHANGED <<opts, lib_config, rdata, pc, ret, aln, bcvars>>

\* two records at one (tid, pos), in one order in the first stream and in the other
\* order in the second
PermTie ==
    /\ pc = "run" /\ stream.n + 1 < MaxReads
    /\ \E tp \in NextPositions : \E a, b \in PermReads(tp) :
          Feed(<<a, b>>, <<b, a>>, 2)
    /\ UNCHANGED <<opts, lib_config, rdata, pc, ret, aln, bcvars>>

\* end of both streams: process_final_region hands a non-empty buffer over
PermFinal ==
    /\ pc = "run"
    /\ hist' = [hist EXCEPT
          !.flushes = IF bd.reads_in_current_region # <<>>
                      THEN Append(@, Flushed(bd)) ELSE @,
          !.twin_flushes = IF twin.reads_in_current_region # <<>>
                           THEN Append(@, Flushed(twin)) ELSE @,
          !.coverage_inputs = IF bd.reads_in_current_region # <<>>
                              THEN Append(@, CoverageInputs(bd)) ELSE @]
    /\ pc' = "done"
    /\ UNCHANGED <<opts, lib_config, bd, twin, rdata, stream, ret, aln, bcvars>>

NextPerm == PermSingle \/ PermTie \/ PermFinal

SpecPerm == InitPerm /\ [][NextPerm]_vars

\* bounds and read set of a flushed buffer
Extent(f) ==
    [start_tid |-> f.start_tid, start_pos |-> f.start_pos, end_pos |-> f.end_pos,
     reads |-> f.reads]

Extents(fs) == [i \in 1..Len(fs) |-> Extent(fs[i])]

\* C7 as stated: two streams that differ only in the order of the records sharing one
\* (tid, pos) give the same sequence of flush decisions: registered or discarded, with
\* the same bounds, nnormal_reads and read sets.
C7_SameFlushDecisions == hist.flushes = hist.twin_flushes

\* C7 amended: the two streams give the same sequence of flushed buffers with the same
\* bounds and read sets, and the same open region; nnormal_reads and the coverage that
\* decides between registering and discarding depend on the order within a tie.
C7_SameFlushedExtents ==
    /\ Extents(hist.flushes) = Extents(hist.twin_flushes)
    /\ twin.region_start_tid = bd.region_start_tid
    /\ twin.region_start_pos = bd.region_start_pos
    /\ twin.region_end_tid = bd.region_end_tid
    /\ twin.region_end_pos = bd.region_end_pos
    /\ BagOf(twin.reads_in_current_region) = BagOf(bd.reads_in_current_region)

\* both streams ended; a tie was taken in the two orders and the flush decisions differ
C7_Witness ==
    /\ pc = "done"
    /\ Len(hist.flushes) >= 2
    /\ hist.flushes # hist.twin_flushes
    /\ twin.reads_in_current_region # bd.reads_in_current_region

----------------------------------------------------------------------------
(* Properties of push_read and process_breakpoint, step by step *)

\* the step is a push_read that called process_breakpoint
BreakStep == pc = "run" /\ stream'.n = stream.n + 1 /\ aln' # aln

\* the step is process_final_region calling process_breakpoint
FinalBreakStep == pc = "run" /\ hist.final_buffer = "open" /\ hist'.final_buffer = "nonempty"

\* the claim's condition on the fields process_breakpoint reads
SpanAndCoverage(b) ==
    LET den == b.region_end_pos - b.region_start_pos + 1 + b.max_readlen
    IN  /\ den > 0
        /\ b.region_end_pos - b.region_start_pos > opts.min_len
        /\ b.ntotal_nucleotides < opts.seq_coverage_lim * den

BuildFromBreakpoint == pc' = "bc_outer" /\ ret' \in {"push_read", "final_flush"}

\* what process_breakpoint, called on the fields b, did in this step
BreakpointOutcome(b) ==
    IF SpanAndCoverage(b)
    THEN /\ Len(rdata'.regions) = Len(rdata.regions) + 1
         /\ rdata'.regions[Len(rdata'.regions)] =
               [exists |-> TRUE, tid |-> b.region_start_tid, begin |-> b.region_start_pos,
                last |-> b.region_end_pos, normal_read_count |-> b.nnormal_reads,
                reads |-> b.reads_in_current_region]
         /\ bd'.buffer_size = b.buffer_size + 1
    ELSE /\ rdata'.regions = rdata.regions
         /\ bd'.buffer_size = b.buffer_size
         /\ ~BuildFromBreakpoint
         /\ rdata'.read_regions =
               collapse_accumulated_data_into_last_region(
                   rdata, b.reads_in_current_region).read_regions

\* C11: every process_breakpoint registers the region (add_region with the region's
\* fields, _buffer_size + 1) iff region_end_pos - region_start_pos > min_len and
\* ntotal_nucleotides / (region_end_pos - region_start_pos + 1 + max_readlen) <
\* seq_coverage_lim; otherwise no region is added, _buffer_size is unchanged, no
\* build_connection is called and the buffer is collapsed into the last region.
C11_RegisteredIffReliable ==
    [][/\ BreakStep => BreakpointOutcome(Accumulate(bd, aln'))
       /\ FinalBreakStep => BreakpointOutcome(bd)]_vars

\* the last buffer of a run was long enough and too densely covered: it was discarded
C11_Witness ==
    /\ ret = "final" /\ pc = "bc_outer"
    /\ hist.final_buffer = "nonempty"
    /\ bd.region_end_pos - bd.region_start_pos > opts.min_len
    /\ ~SpanAndCoverage(bd)
    /\ rdata.regions = <<>>

----------------------------------------------------------------------------
(* Properties of the classifier at the cutoffs *)

\* C12: with lowercutoff < uppercutoff, a read whose |isize| is exactly one of the
\* cutoffs leaves the classifier concordant: in long-insert mode NORMAL_RF and ARP_RF
\* both come out NORMAL_RF, in short-insert mode NORMAL_FR and ARP_FR_big_insert both
\* come out NORMAL_FR.
C12_BoundaryStaysConcordant ==
    (/\ pc = "classified"
     /\ lib_config.lowercutoff < lib_config.uppercutoff
     /\ Abs(aln.isize) \in {lib_config.lowercutoff, lib_config.uppercutoff}) =>
        /\ (opts.Illumina_long_insert /\ hist.input_flag \in {NORMAL_RF, ARP_RF})
              => aln.bdflag = NORMAL_RF
        /\ (~opts.Illumina_long_insert /\ hist.input_flag \in {NORMAL_FR, ARP_FR_big_insert})
              => aln.bdflag = NORMAL_FR

----------------------------------------------------------------------------
(* Properties of the region accumulator *)

\* the step is a push_read of a read that stayed discordant: it broke the region or
\* joined the buffer
DiscordantStep ==
    /\ pc = "run" /\ stream'.n = stream.n + 1
    /\ (aln' # aln \/ Len(bd'.reads_in_current_region) = Len(bd.reads_in_current_region) + 1)

\* the claim's break condition, on the position of the record just delivered
LeftWindow ==
    \/ stream'.tid # bd.region_end_tid
    \/ stream'.pos - bd.region_end_pos > bd.max_read_window_size

\* the buffer of b holds the read a alone and the region starts and ends at it
OpensRegion(b, a) ==
    /\ b.reads_in_current_region = <<StoredRead(a)>>
    /\ b.region_start_tid = a.tid /\ b.region_start_pos = a.pos
    /\ b.region_end_tid = a.tid /\ b.region_end_pos = a.pos

\* C13: a discordant read flushes the previous region iff its tid differs from
\* region_end_tid or its pos lies more than max_read_window_size past region_end_pos.
\* The flush sees the buffer without the read; after it the read is the only member of
\* the buffer and region_start is the read's (tid, pos). Without a flush region_start is
\* unchanged and the read is appended. Either way region_end becomes the read's
\* (tid, pos).
C13_BreakIffLeftWindow ==
    [][/\ DiscordantStep =>
            IF LeftWindow
            THEN /\ aln' # aln
                 /\ aln'.tid = stream'.tid /\ aln'.pos = stream'.pos
                 /\ Len(rdata'.regions) > Len(rdata.regions) =>
                        rdata'.regions[Len(rdata'.regions)].reads = bd.reads_in_current_region
                 /\ IF pc' = "run" THEN OpensRegion(bd', aln')
                    ELSE bd'.reads_in_current_region = bd.reads_in_current_region
            ELSE /\ aln' = aln
                 /\ rdata'.regions = rdata.regions
                 /\ Len(bd'.reads_in_current_region) = Len(bd.reads_in_current_region) + 1
                 /\ SubSeq(bd'.reads_in_current_region, 1, Len(bd.reads_in_current_region))
                        = bd.reads_in_current_region
                 /\ bd'.region_start_tid = bd.region_start_tid
                 /\ bd'.region_start_pos = bd.region_start_pos
                 /\ bd'.region_end_tid = stream'.tid
                 /\ bd'.region_end_pos = stream'.pos
       /\ (pc = "bc_return" /\ ret = "push_read") => OpensRegion(bd', aln)]_vars

\* a region was registered, and the open buffer took a second read exactly
\* max_read_window_size past its first
C13_Witness ==
    /\ pc = "run"
    /\ Len(rdata.regions) >= 1
    /\ Len(bd.reads_in_current_region) = 2
    /\ bd.region_end_pos - bd.region_start_pos = bd.max_read_window_size

----------------------------------------------------------------------------
(* Properties of process_sv *)

\* the step is a call of process_sv
ProcessSvStep == Len(hist'.sv_calls) = Len(hist.sv_calls) + 1

\* the candidate reads of the call the step makes
StepCandidates ==
    LET tail == tails[it_tails]
    IN  CandidateReads(rdata, Snodes(tail, FirstEdge(graph, tail)[2]))

\* C14: a call of process_sv writes at most one record, and writes it only if
\* num_pairs >= min_read_pair, flag_counts[flag] >= min_read_pair and
\* PhredQ > score_threshold; a PhredQ equal to the threshold writes nothing, and PhredQ
\* never exceeds 99.
C14_RecordOnlyAboveThreshold ==
    [][/\ hist'.nrecords \in {hist.nrecords, hist.nrecords + 1}
       /\ hist'.nrecords # hist.nrecords =>
            /\ pc = "bc_edges" /\ ProcessSvStep
            /\ NumPairs(StepCandidates) >= opts.min_read_pair
            /\ FlagCounts(StepCandidates, DominantFlag(StepCandidates)) >= opts.min_read_pair
            /\ hist'.PhredQ > opts.score_threshold
       /\ hist'.PhredQ <= 99]_vars

\* a build_connection made two calls: one wrote a record, the last one scored exactly
\* score_threshold and wrote none
C14_Witness ==
    /\ Len(hist.sv_calls) = 2
    /\ hist.nrecords = 1
    /\ hist.PhredQ = opts.score_threshold

\* the region ids of the node-sets handed to process_sv by the running build_connection
VisitedNodes == UNION {SeqRange(hist.sv_calls[i]) : i \in 1..Len(hist.sv_calls)}

----------------------------------------------------------------------------
(* Properties of the flush trigger *)

\* the step starts a build_connection
BuildStartStep == pc \in {"run", "bc_return"} /\ pc' = "bc_outer"

\* regions registered since the previous build_connection started, after the step
RegisteredSinceBuild == Len(rdata'.regions) - hist.built_at

\* C16: build_connection is triggered from process_breakpoint when the count of regions
\* registered since the previous flush reaches opts.buffer_size, so when any
\* build_connection starts at most opts.buffer_size regions were registered since the
\* previous one.
C16_FlushAtBufferSize ==
    [][BuildStartStep =>
          /\ BuildFromBreakpoint => RegisteredSinceBuild = opts.buffer_size
          /\ RegisteredSinceBuild <= opts.buffer_size]_vars

\* C16 amended: with opts.buffer_size >= 0 the trigger fires when the count exceeds
\* opts.buffer_size, that is at opts.buffer_size + 1 regions, so when any
\* build_connection starts at most opts.buffer_size + 1 regions were registered since
\* the previous one.
C16_FlushAboveBufferSize ==
    [][(opts.buffer_size >= 0 /\ BuildStartStep) =>
          /\ BuildFromBreakpoint => RegisteredSinceBuild = opts.buffer_size + 1
          /\ RegisteredSinceBuild <= opts.buffer_size + 1]_vars

\* the first build_connection was triggered by process_breakpoint with
\* opts.buffer_size + 1 regions registered
C16_Witness ==
    /\ pc = "bc_outer" /\ ret \in {"push_read", "final_flush"}
    /\ hist.built_at = opts.buffer_size + 1
    /\ Len(rdata.regions) = opts.buffer_size + 1
    /\ hist.sv_calls = <<>>

----------------------------------------------------------------------------
(* The gates of push_read under every threshold setting: runs of GateLen records *)

GateLen == 2

GateMapQuals == 0..2

\* aligner flag, insert size and mapping quality of the records of a gate run
GateKinds ==
    {[bdflag |-> f, isize |-> i, bdqual |-> q] :
        f \in {NORMAL_FR, NORMAL_RF, ARP_FF, ARP_CTX, MATE_UNMAPPED, NA},
        i \in {2, -2, 4, 5}, q \in GateMapQuals}

\* global threshold 0 or 1, either counter key, either transchr_rearrange
GateOptions ==
    {[o EXCEPT !.min_map_qual = g, !.CN_lib = c, !.transchr_rearrange = t] :
        o \in {x \in OptionChoices : x.buffer_size = 1},
        g \in {0, 1}, c \in {0, 1}, t \in BOOLEAN}

\* library threshold missing, 0 or 1
GateLibraries ==
    [min_mapping_quality : {-1, 0, 1}, lowercutoff : {2}, uppercutoff : {3}]

GateReads ==
    {a \in {[name |-> Unpaired, tid |-> tp[1], pos |-> tp[2], bdflag |-> k.bdflag,
             isize |-> k.isize, bdqual |-> k.bdqual, query_length |-> q] :
                tp \in NextPositions, k \in GateKinds, q \in QueryLengths} :
        EntersBuffer(a) \/ (a.tid = stream.tid /\ a.pos = stream.pos)}

\* push_read ends in process_breakpoint calling build_connection
ReachesBuild(b, a) ==
    LET c == Classified(a)
        b1 == Accumulate(b, c)
    IN  /\ EntersBuffer(a)
        /\ DoBreak(b1, c)
        /\ RegionIsReliable(b1)
        /\ FlushTriggered(b1.buffer_size + 1)

\* the store after a push_read that does not reach build_connection
PushReadStore(rd, b, a) ==
    IF DroppedEarly(a) THEN rd
    ELSE LET c == Classified(a)
             b1 == Accumulate(b, c)
             rd1 == Counted(rd, a)
         IN  IF DroppedLate(a) \/ IsNormal(c.bdflag) \/ ~DoBreak(b1, c) THEN rd1
             ELSE IF RegionIsReliable(b1)
             THEN add_region(rd1, b1.region_start_tid, b1.region_start_pos,
                             b1.region_end_pos, b1.nnormal_reads,
                             b1.reads_in_current_region)
             ELSE collapse_accumulated_data_into_last_region(
                      rd1, b1.reads_in_current_region)

InitGate ==
    /\ opts \in GateOptions
    /\ lib_config \in GateLibraries
    /\ bd \in {Construct(w) : w \in WindowChoices}
    /\ rdata = EmptyStore
    /\ stream = StreamInit
    /\ pc = "run"
    /\ ret = "none"
    /\ aln = NoRead
    /\ IdleLocals
    /\ hist = HistInit
    /\ twin = bd

\* one call of push_read, start to return
GatePushRead ==
    /\ pc = "run" /\ stream.n < GateLen
    /\ \E a \in GateReads :
        /\ ~ReachesBuild(bd, a)
        /\ bd' = PushReadObject(bd, a).bd
        /\ rdata' = PushReadStore(rdata, bd, a)
        /\ stream' = Advance(a)
        /\ aln' = IF EntersBuffer(a) /\ DoBreak(Accumulate(bd, Classified(a)), Classified(a))
                  THEN Classified(a) ELSE aln
        /\ hist' = [Observe(a) EXCEPT !.pushed = a]
    /\ UNCHANGED <<opts, lib_config, pc, ret, bcvars, twin>>

NextGate == GatePushRead

SpecGate == InitGate /\ [][NextGate]_vars

\* the mapq threshold of the run: the library's when it is >= 0, else the global one
GateThreshold ==
    IF lib_config.min_mapping_quality >= 0
    THEN lib_config.min_mapping_quality ELSE opts.min_map_qual

\* the step is a push_read of a record with a pair-orientation flag
PushedStep == stream'.n = stream.n + 1 /\ hist'.pushed.bdflag # NA

\* the sweep state, the counters and the regions are what they were
NothingChanges == bd' = bd /\ rdata' = rdata /\ aln' = aln

\* the record pushed by the step passes the gates behind the counter
SurvivesLateGates ==
    LET a == hist'.pushed
    IN  /\ ~(opts.transchr_rearrange /\ a.bdflag # ARP_CTX)
        /\ a.bdflag \notin {MATE_UNMAPPED, UNMAPPED}
        /\ (a.bdflag = ARP_CTX \/ Abs(a.isize) <= opts.max_sd)

\* C17: a read is dropped by the mapq gate iff mapq <= T, where T is the library
\* threshold when that is >= 0 (0 included) and the global min_map_qual otherwise.
\* A dropped read, mapq = T included, changes no sweep state, counter or region; a read
\* with mapq > T is counted when its flag is NORMAL_* and its mapq is above
\* min_map_qual, and joins the buffer when it is discordant and survives the later gates.
C17_DroppedIffAtOrBelowThreshold ==
    [][PushedStep =>
          LET a == hist'.pushed
          IN  /\ a.bdqual <= GateThreshold => NothingChanges
              /\ (a.bdqual > GateThreshold /\ IsNormal(a.bdflag)
                    /\ a.bdqual > opts.min_map_qual) => rdata' # rdata
              /\ (a.bdqual > GateThreshold /\ a.bdflag \in {ARP_FF, ARP_CTX}
                    /\ SurvivesLateGates) => bd' # bd]_vars

\* an open region, a library threshold of 0, and a read of mapq 0 was pushed last
C17_Witness ==
    /\ lib_config.min_mapping_quality = 0 /\ opts.min_map_qual = 1
    /\ hist.pushed.bdflag = ARP_FF /\ hist.pushed.bdqual = 0
    /\ Len(bd.reads_in_current_region) = 1

\* the key of the normal-read counter: the library name, or the source file
CounterKey == IF opts.CN_lib = 1 THEN "name" ELSE "bam_file"

\* C18: push_read adds exactly one to the normal-read counter of the read's key (library
\* name when CN_lib = 1, source file otherwise) iff the aligner's flag is NORMAL_FR or
\* NORMAL_RF, the mapq passed the effective threshold and the mapq is above the global
\* min_map_qual, whatever drops or reclassifies the read later; no other read changes
\* any counter.
C18_CountedIffNormalAboveBoth ==
    [][stream'.n = stream.n + 1 =>
          LET a == hist'.pushed
              counted == /\ a.bdflag \in {NORMAL_FR, NORMAL_RF}
                         /\ a.bdqual > GateThreshold
                         /\ a.bdqual > opts.min_map_qual
          IN  rdata'.normal_read_count =
                  [rdata.normal_read_count EXCEPT
                      ![CounterKey] = IF counted THEN @ + 1 ELSE @]]_vars

\* two reads were counted under the source-file key, the last of them a NORMAL_FR read
\* that max_sd dropped afterwards
C18_Witness ==
    /\ opts.CN_lib = 0
    /\ rdata.normal_read_count["bam_file"] = 2
    /\ hist.pushed.bdflag = NORMAL_FR
    /\ Abs(hist.pushed.isize) > opts.max_sd

----------------------------------------------------------------------------
(* Properties of the concordant-read counter *)

\* the step is a push_read of a read the aligner flagged NORMAL_* that neither broke
\* the region nor joined the buffer
ConcordantStep ==
    /\ pc = "run" /\ stream'.n = stream.n + 1
    /\ hist'.n_counted = hist.n_counted + 1
    /\ ~DiscordantStep

\* C19: at every flush nnormal_reads is the number of reads still NORMAL_* after
\* classification, with isize > 0, that arrived after the first discordant read of the
\* flushed region and before the read that triggered the flush; a concordant read
\* changes no other sweep state, and none at all while no region is open.
C19_NormalReadsOfRegion ==
    [][/\ (BreakStep \/ FinalBreakStep) =>
            /\ bd.nnormal_reads = hist.n_open
            /\ Len(rdata'.regions) > Len(rdata.regions) =>
                  rdata'.regions[Len(rdata'.regions)].normal_read_count = hist.n_open
       /\ ConcordantStep =>
            /\ bd' = [bd EXCEPT !.nnormal_reads = bd'.nnormal_reads]
            /\ bd'.nnormal_reads = bd.nnormal_reads + (hist'.n_open - hist.n_open)
            /\ rdata'.regions = rdata.regions
            /\ bd.reads_in_current_region = <<>> => bd' = bd]_vars

\* a region was registered with one concordant read counted, and another concordant
\* read of its span was not counted
C19_Witness ==
    /\ pc = "run"
    /\ Len(rdata.regions) >= 1
    /\ rdata.regions[1].exists
    /\ rdata.regions[1].normal_read_count = 1
    /\ hist.n_counted >= 2
    /\ bd.nnormal_reads = 0

----------------------------------------------------------------------------
(* Termination of build_connection *)

BuildPcs == {"bc_outer", "bc_while", "bc_for", "bc_edges", "bc_cleanup"}

\* statements a build_connection may execute on the snapshot g: per key one pass of
\* the outer loop, per tail a round, a lookup and an erase, per edge one visit
StepBound(g) == 6 * Cardinality(g.keys) + 5 * Cardinality(g.edges) + 2

\* a statement of build_connection can execute: the tail has an edge left to visit, or
\* one of the other statements is enabled
CanStep ==
    \/ /\ pc = "bc_edges"
       /\ it_tails \in 1..Len(tails)
       /\ Adjacency(graph, tails[it_tails]) # {}
    \/ ENABLED (BC_Outer \/ BC_While \/ BC_For \/ BC_TailDone \/ BC_Cleanup)

\* C20: build_connection terminates for every finite snapshot: it never stops short of
\* its return and returns within a number of statements fixed by the snapshot; when the
\* traversal loop ends the local snapshot has no entries, every key having been taken
\* as a tail, had all its outgoing edges consumed and been erased.
C20_TerminatesWithEmptySnapshot ==
    /\ [](pc \in BuildPcs => CanStep)
    /\ [](hist.steps <= StepBound(hist.snapshot))
    /\ [](pc = "bc_cleanup" => graph = EmptyGraph)
    /\ [][\A k \in graph.keys \ graph'.keys :
             /\ pc = "bc_edges"
             /\ k = tails[it_tails]
             /\ Adjacency(graph, k) = {}]_vars

\* the traversal of a snapshot of three linked regions ended after two calls of
\* process_sv
C20_Witness ==
    /\ pc = "bc_cleanup"
    /\ Cardinality(hist.snapshot.keys) = 3
    /\ Len(hist.sv_calls) >= 2
    /\ graph = EmptyGraph

----------------------------------------------------------------------------
(* The coverage bookkeeping of the sweep *)

RECURSIVE SumOf(_)
SumOf(q) == IF q = <<>> THEN 0 ELSE Head(q) + SumOf(Tail(q))

RECURSIVE LongestOf(_)
LongestOf(q) == IF q = <<>> THEN 0 ELSE Max2(Head(q), LongestOf(Tail(q)))

\* C21: at every flush the ntotal_nucleotides and the max_readlen that seq_coverage is
\* computed from are the sum and the maximum of the query lengths of exactly the reads
\* the flushed buffer holds: the first read of the region counts, the read that
\* triggers the break does not.
C21_CoverageOfBufferedReads ==
    \A i \in 1..Len(hist.coverage_inputs) :
        LET c == hist.coverage_inputs[i]
        IN  /\ c.ntotal_nucleotides = SumOf(c.query_lengths)
            /\ c.max_readlen = LongestOf(c.query_lengths)

\* C22: whenever push_read has returned, _collecting_normal_reads is true iff a
\* discordant read has been appended since the last break, that is iff the buffer of
\* the current region has been started: false from construction until the first
\* discordant read is appended, never false while a region is open, and once true it
\* is true after every later push_read.
C22_CollectingIffRegionOpen ==
    /\ [](pc = "run" =>
            /\ bd.collecting_normal_reads <=> hist.entered
            /\ bd.collecting_normal_reads <=> bd.reads_in_current_region # <<>>)
    /\ [][(pc = "run" /\ pc' = "run" /\ bd.collecting_normal_reads)
              => bd'.collecting_normal_reads]_vars
    /\ [][(pc = "bc_return" /\ ret = "push_read") => bd'.collecting_normal_reads]_vars

\* push_read returned from a break that registered a region: the flag was cleared and
\* set again by the read that opened the new region
C22_Witness ==
    /\ pc = "run"
    /\ Len(rdata.regions) >= 1
    /\ Len(bd.reads_in_current_region) = 1
    /\ bd.collecting_normal_reads
    /\ bd.ntotal_nucleotides = 0

\* C23: whenever process_sv pads the start coordinate, the amount max_readlen - 5 is
\* not negative, the padded pos[0] is not smaller than it was and is still below
\* pos[1], whatever _max_readlen the sweep left when build_connection was called, the
\* call of process_final_region included.
C23_PaddingNotNegative ==
    hist.padding.applied =>
        /\ hist.padding.max_readlen - 5 >= 0
        /\ hist.padding.after[1] >= hist.padding.before[1]
        /\ hist.padding.after[1] < hist.padding.after[2]

----------------------------------------------------------------------------
(* The outer iterator of build_connection *)

\* C24: in build_connection ii_graph->first is never evaluated with ii_graph at
\* graph.end(), and ii_graph never refers to an erased entry: when tails is seeded and
\* when a tail whose adjacency is exhausted is compared with ii_graph->first, ii_graph
\* points to an entry of the snapshot that is still in the map.
C24_OuterIteratorLive ==
    /\ ~hist.bad_deref
    /\ pc \in BuildPcs =>
          \/ ii_graph = GraphEnd
          \/ ii_graph \in graph.keys /\ ii_graph \in hist.snapshot.keys
    /\ pc = "bc_edges" => ii_graph # GraphEnd /\ tails[it_tails] \in graph.keys

\* a tail reached over an edge has exhausted its adjacency and is compared with the
\* entry ii_graph moved to when the seeding entry was erased
C24_Witness ==
    /\ pc = "bc_edges"
    /\ Adjacency(graph, tails[it_tails]) = {}
    /\ ~need_iter_increment
    /\ tails[it_tails] # ii_graph
    /\ ii_graph \notin SeqRange(tails)
    /\ Cardinality(hist.snapshot.keys \ graph.keys) >= 1

====
